---- MODULE Spec2Model ----
(***************************************************************************)
(* The market scan of coin_recommender.py (analyze_market and the helpers  *)
(* it calls) and the cache threads of app.py, as state machines.           *)
(*                                                                         *)
(* Numbers.  pandas works on IEEE doubles; here a float is a fixed-point   *)
(* integer, Scale units to 1.0, and every division rounds down.  Trade     *)
(* prices arrive as integers and astype(float) is the multiplication by    *)
(* Scale.  signed_change_rate is kept in thousandths (0.02 is 20).         *)
(*                                                                         *)
(* The exchange.  The REST API is the environment: what it would answer    *)
(* to each request of one scan is fixed in the initial state (listing,     *)
(* snap_fault, quote, day_feed, hour_feed) and never changes during the    *)
(* scan, so a scan runs against one frozen snapshot of the market.         *)
(***************************************************************************)
EXTENDS Integers, Sequences, FiniteSets, TLC

VARIABLES
    \* ---- the exchange (environment of one scan)
    listing,        \* answer to /v1/market/all
    snap_fault,     \* per snapshot request (chunk number): transport outcome
    quote,          \* per market: its item in the /v1/ticker answer
    day_feed,       \* per market: answer to /v1/candles/days
    hour_feed,      \* per market: answer to /v1/candles/minutes/60
    \* ---- analyze_market
    pc,             \* position in analyze_market
    tickers,        \* line 78
    i,              \* loop variable of the loop pc is in
    chunks,         \* the chunks requested so far (line 86), in order
    valid_tickers,  \* line 83
    final_list,     \* line 104
    top_5,          \* line 160, the value returned
    is_macd_ok,     \* line 112, of the ticker evaluated last
    macd_strength,  \* line 112
    ma,             \* <<curr_ma, prev_ma>> of lines 127-128, last ticker
    verdict,        \* per evaluated market: what the loop body did with it
    n_requests,     \* HTTP requests issued after the listing request
    \* ---- app.py
    cache,          \* the module-level dict of line 12
    upd,            \* update_cache thread: position and locals
    live,           \* live_price_update thread: position and locals
    req,            \* the get_recommendations request in progress
    responses,      \* number of responses served
    clock,          \* wall clock, in seconds
    cycle           \* number of analyses completed by update_cache

scan_vars == <<pc, tickers, i, chunks, valid_tickers, final_list, top_5,
               is_macd_ok, macd_strength, ma, verdict, n_requests>>
exchange_vars == <<listing, snap_fault, quote, day_feed, hour_feed>>
app_vars == <<cache, upd, live, req, responses, clock, cycle>>
vars == <<exchange_vars, scan_vars, app_vars>>

----------------------------------------------------------------------------
(* Bounds of the model *)

\* fixed-point units per 1.0
Scale == 1000
\* largest ticker universe of the ranking specification
MaxTickers == 6
\* number of newest candles whose price varies freely
MaxTail == 3
\* largest ticker universe of the specifications that vary one market's data
MaxSmall == 2
\* analyses update_cache starts, seconds the clock runs, responses served
MaxCycles == 2
MaxClock == 3
MaxResponses == 2

(* Program constants *)

chunk_size == 100
TopN == 5
RateBand == 20
DayCount == 50
HourCount == 20
MinDays_less_one == 30 - 1
MinDays == 30
MinHours == 12
Window == 10
SpanFast == 12
SpanSlow == 26
SpanSignal == 9

----------------------------------------------------------------------------
(* Sequences *)

Reverse(s) == [k \in 1..Len(s) |-> s[Len(s) + 1 - k]]

Take(s, n) == IF Len(s) <= n THEN s ELSE SubSeq(s, 1, n)

Min(a, b) == IF a <= b THEN a ELSE b

RECURSIVE SumSeq(_)
SumSeq(s) == IF s = <<>> THEN 0 ELSE Head(s) + SumSeq(Tail(s))

Range(s) == {s[k] : k \in 1..Len(s)}

\* F(v), with v evaluated once (a local variable holding a computed value).
With(v, F(_)) == CHOOSE r \in {F(x) : x \in {v}} : TRUE

----------------------------------------------------------------------------
(* The exchange's answers *)

\* A candle of the payload: its trade_price, and whether that is a number
\* (a payload may carry a string such as "N/A" in its place).
Candle(p, numeric) == [trade_price |-> p, numeric |-> numeric]

\* The history the exchange holds for a feed, newest first: the newest
\* Len(feed.tail) candles at the prices of feed.tail, every older one at
\* feed.base; the candle at position feed.bad (if any) is not a number.
History(feed) ==
    [k \in 1..feed.len |->
        Candle(IF k <= Len(feed.tail) THEN feed.tail[k] ELSE feed.base,
               k # feed.bad)]

\* get_candles: any failure of the request (transport, HTTP status, a body
\* that is not JSON) is caught and answered with the empty list; otherwise
\* the payload, which holds the newest `count` candles at most.
get_candles(feed, count) ==
    IF feed.fault # "none" THEN <<>> ELSE Take(History(feed), count)

\* The reversal left out: the series is read newest first.
OldestFirst_unreversed(candles) == candles

\* df.iloc[::-1]: the payload is newest first, the indicators read it
\* oldest first.
OldestFirst(candles) == Reverse(candles)

\* astype(float) of the trade_price column: raises unless every value is a
\* number.
AllNumeric(candles) == \A k \in 1..Len(candles) : candles[k].numeric

ToFloat(p) == p * Scale

Prices(candles) == [k \in 1..Len(candles) |-> ToFloat(candles[k].trade_price)]

----------------------------------------------------------------------------
(* Candle/indicator engine *)

\* Series.ewm(span, adjust=False).mean():
\*   y[1] = x[1],  y[t] = (1-a)*y[t-1] + a*x[t],  a = 2/(span+1)
RECURSIVE ewm_from(_, _, _)
ewm_from(xs, span, out) ==
    IF Len(out) = Len(xs) THEN out
    ELSE LET t == Len(out) + 1
         IN  ewm_from(xs, span,
                Append(out, (2 * xs[t] + (span - 1) * out[t - 1]) \div (span + 1)))

ewm_mean(xs, span) == IF xs = <<>> THEN <<>> ELSE ewm_from(xs, span, <<xs[1]>>)

Minus(xs, ys) == [t \in 1..Len(xs) |-> xs[t] - ys[t]]

calculate_macd(prices) ==
    With(ewm_mean(prices, SpanFast), LAMBDA exp12 :
    With(ewm_mean(prices, SpanSlow), LAMBDA exp26 :
    With(Minus(exp12, exp26), LAMBDA macd_line :
    With(ewm_mean(macd_line, SpanSignal), LAMBDA signal_line :
        [macd_line |-> macd_line,
         signal_line |-> signal_line,
         macd_hist |-> Minus(macd_line, signal_line)]))))

\* The two conditions of lines 67 and 70.
is_golden_cross(prev_macd, prev_sig, curr_macd, curr_sig) ==
    (prev_macd <= prev_sig) /\ (curr_macd > curr_sig)

is_rising(prev_macd, curr_macd, curr_sig) ==
    (curr_macd > curr_sig) /\ (curr_macd > prev_macd)

\* check_macd_golden_cross(ticker): one request for the daily candles, then
\* (ok, strength), or the exception of line 57.
check_macd_golden_cross(ticker) ==
    With(get_candles(day_feed[ticker], DayCount), LAMBDA candles :
        IF candles = <<>> \/ Len(candles) < MinDays
        THEN [raised |-> FALSE, ok |-> FALSE, strength |-> 0]
        ELSE IF ~AllNumeric(candles)
        THEN [raised |-> TRUE, ok |-> FALSE, strength |-> 0]
        ELSE With(calculate_macd(Prices(OldestFirst(candles))), LAMBDA m :
             LET n == Len(candles)
                 curr_macd == m.macd_line[n]
                 prev_macd == m.macd_line[n - 1]
                 curr_sig == m.signal_line[n]
                 prev_sig == m.signal_line[n - 1]
             IN  IF \/ is_golden_cross(prev_macd, prev_sig, curr_macd, curr_sig)
                    \/ is_rising(prev_macd, curr_macd, curr_sig)
                 THEN [raised |-> FALSE, ok |-> TRUE,
                       strength |-> curr_macd - curr_sig]
                 ELSE [raised |-> FALSE, ok |-> FALSE, strength |-> 0]))

\* A value of a rolling series: a number, or NaN.
NaN == [nan |-> TRUE, v |-> 0]

Num(x) == [nan |-> FALSE, v |-> x]

isna(x) == x.nan

\* >= in place of >.
Gt_or_equal(x, y) == ~x.nan /\ ~y.nan /\ x.v >= y.v

\* x > y on floats: false when either is NaN.
Gt(x, y) == ~x.nan /\ ~y.nan /\ x.v > y.v

\* Series.rolling(window=w).mean(): NaN until w samples exist, then the
\* mean of the last w.
rolling_mean(xs, w) ==
    [t \in 1..Len(xs) |->
        IF t < w THEN NaN ELSE Num(SumSeq(SubSeq(xs, t - w + 1, t)) \div w)]

----------------------------------------------------------------------------
(* analyze_market *)

\* get_krw_tickers: [] on any failure of the request, or when an item of
\* the payload has no 'market' key (the comprehension raises inside the
\* try); otherwise the markets whose name starts with 'KRW-', in order.
IsKrw(item) == item.krw

KrwMarkets(items) ==
    With(SelectSeq(items, IsKrw), LAMBDA kept :
        [k \in 1..Len(kept) |-> kept[k].market])

\* Whatever the payload holds is used, failed request or not.
get_krw_tickers_unguarded == KrwMarkets(listing.items)

get_krw_tickers ==
    IF listing.fault # "none" THEN <<>>
    ELSE IF \E k \in 1..Len(listing.items) : ~listing.items[k].keyed THEN <<>>
    ELSE KrwMarkets(listing.items)

\* tickers[i:i+chunk_size], i counted from 0.
Chunk(ts, start) == SubSeq(ts, start + 1, Min(start + chunk_size, Len(ts)))

\* The band without its ends.
InBand_open(rate) == (0 - RateBand < rate) /\ (rate < RateBand)

\* The condition of line 94.
InBand(rate) == (0 - RateBand <= rate) /\ (rate <= RateBand)

\* The loop of lines 92-98 over the items of one answer: what it appends
\* to valid_tickers.  An item without 'signed_change_rate' raises at line
\* 94; an item in the band without 'acc_trade_price_24h' raises at line 97.
\* The exception leaves the loop (line 99) and what was appended before it
\* stays appended.
ItemRaises(item) ==
    \/ item.keys = "no_rate"
    \/ InBand(item.signed_change_rate) /\ item.keys = "no_acc"

ItemInBand(item) == InBand(item.signed_change_rate)

\* The items the loop gets through: those before the first that raises.
Reached(data) ==
    With({k \in 1..Len(data) : ItemRaises(data[k])}, LAMBDA raising :
        IF raising = {} THEN data
        ELSE SubSeq(data, 1, (CHOOSE k \in raising : \A j \in raising : k <= j) - 1))

FilterItems(data) ==
    With(SelectSeq(Reached(data), ItemInBand), LAMBDA kept :
        [k \in 1..Len(kept) |->
            [market |-> kept[k].market,
             acc_trade_price_24h |-> kept[k].acc_trade_price_24h]])

\* The body of the try of lines 90-98 for one chunk: nothing when the
\* request or res.json() raises, the exchange's items for the requested
\* markets (in request order) otherwise.
SnapshotOf(chunk, number) ==
    IF snap_fault[number] # "none" THEN <<>>
    ELSE FilterItems([k \in 1..Len(chunk) |-> quote[chunk[k]]])

\* The body of the loop of lines 106-149 for one entry of valid_tickers.
\* verdict: "macd" (line 114), "short" (line 119), "nan" (line 131),
\* "flat" (line 134 false), "pass" (appended), "raised" (an exception
\* leaves analyze_market).
EvalTicker(ticker_info) ==
    With(check_macd_golden_cross(ticker_info.market), LAMBDA macd :
    LET ticker == ticker_info.market
        none == [verdict |-> "macd", ok |-> macd.ok, strength |-> macd.strength,
                 ma |-> <<NaN, NaN>>, requests |-> 1, entry |-> <<>>]
    IN  IF macd.raised THEN [none EXCEPT !.verdict = "raised"]
        ELSE IF ~macd.ok THEN none
        ELSE
        With(get_candles(hour_feed[ticker], HourCount), LAMBDA candles_1h :
        LET two == [none EXCEPT !.requests = 2]
        IN  IF candles_1h = <<>> \/ Len(candles_1h) < MinHours
            THEN [two EXCEPT !.verdict = "short"]
            ELSE IF ~AllNumeric(candles_1h)
            THEN [two EXCEPT !.verdict = "raised"]
            ELSE
            With(Prices(OldestFirst(candles_1h)), LAMBDA df_1h :
            With(rolling_mean(df_1h, Window), LAMBDA ma10 :
            LET n == Len(df_1h)
                curr_ma == ma10[n]
                prev_ma == ma10[n - 1]
                seen == [two EXCEPT !.ma = <<curr_ma, prev_ma>>]
                current_price == df_1h[n]
            IN  IF isna(curr_ma) \/ isna(prev_ma)
                THEN [seen EXCEPT !.verdict = "nan"]
                ELSE IF ~Gt(curr_ma, prev_ma)
                THEN [seen EXCEPT !.verdict = "flat"]
                ELSE [seen EXCEPT
                        !.verdict = "pass",
                        !.entry = <<[market |-> ticker,
                                     current_price |-> current_price,
                                     ma10 |-> curr_ma.v,
                                     acc_trade_price_24h |->
                                         ticker_info.acc_trade_price_24h,
                                     slope |-> curr_ma.v - prev_ma.v,
                                     macd_strength |-> macd.strength,
                                     buy_price |-> current_price,
                                     tp1 |-> (current_price * 1015) \div 1000,
                                     tp2 |-> (current_price * 1035) \div 1000,
                                     tp3 |-> (current_price * 1070) \div 1000,
                                     sl |-> (current_price * 990) \div 1000]>>]))))

\* Lines 153-155: normalized_slope is added to every entry.
Normalized(list) ==
    [k \in 1..Len(list) |->
        [market |-> list[k].market,
         current_price |-> list[k].current_price,
         ma10 |-> list[k].ma10,
         acc_trade_price_24h |-> list[k].acc_trade_price_24h,
         slope |-> list[k].slope,
         macd_strength |-> list[k].macd_strength,
         buy_price |-> list[k].buy_price,
         tp1 |-> list[k].tp1, tp2 |-> list[k].tp2, tp3 |-> list[k].tp3,
         sl |-> list[k].sl,
         normalized_slope |-> (list[k].slope * Scale) \div list[k].ma10]]

\* Ranking by indicator strength.
SortKey_strength(x) == x.macd_strength

\* The sort key of line 158.
SortKey(x) == x.acc_trade_price_24h

\* list.sort(key=..., reverse=True): descending and stable, so an entry
\* goes behind every entry already placed whose key is not smaller.
InsertDesc(out, x) ==
    LET p == Cardinality({k \in 1..Len(out) : SortKey(out[k]) >= SortKey(x)})
    IN  SubSeq(out, 1, p) \o <<x>> \o SubSeq(out, p + 1, Len(out))

RECURSIVE SortFrom(_, _)
SortFrom(list, out) ==
    IF list = <<>> THEN out ELSE SortFrom(Tail(list), InsertDesc(out, Head(list)))

sort_desc(list) == SortFrom(list, <<>>)

\* One entry too many.
TopSlice_six(list) == Take(list, TopN + 1)

\* final_list[:5]
TopSlice(list) == Take(list, TopN)

\* line 78
GetTickers ==
    /\ pc = "start"
    /\ tickers' = get_krw_tickers
    /\ pc' = "stage1"
    /\ i' = 0
    /\ UNCHANGED <<chunks, valid_tickers, final_list, top_5, is_macd_ok,
                   macd_strength, ma, verdict, n_requests>>
    /\ UNCHANGED <<exchange_vars, app_vars>>

\* lines 85-100, one pass of the loop
SnapshotChunk ==
    /\ pc = "stage1"
    /\ i < Len(tickers)
    /\ \E chunk \in {Chunk(tickers, i)} :
           /\ chunks' = Append(chunks, chunk)
           /\ valid_tickers' = valid_tickers \o SnapshotOf(chunk, Len(chunks) + 1)
    /\ n_requests' = n_requests + 1
    /\ i' = i + chunk_size
    /\ UNCHANGED <<pc, tickers, final_list, top_5, is_macd_ok, macd_strength,
                   ma, verdict>>
    /\ UNCHANGED <<exchange_vars, app_vars>>

\* the loop of line 85 ends; lines 102-104
EndStage1 ==
    /\ pc = "stage1"
    /\ i >= Len(tickers)
    /\ pc' = "stage2"
    /\ i' = 0
    /\ final_list' = <<>>
    /\ UNCHANGED <<tickers, chunks, valid_tickers, top_5, is_macd_ok,
                   macd_strength, ma, verdict, n_requests>>
    /\ UNCHANGED <<exchange_vars, app_vars>>

\* lines 106-149, one pass of the loop
Stage2Ticker ==
    /\ pc = "stage2"
    /\ i < Len(valid_tickers)
    /\ \E r \in {EvalTicker(valid_tickers[i + 1])} :
           /\ is_macd_ok' = r.ok
           /\ macd_strength' = r.strength
           /\ ma' = r.ma
           /\ n_requests' = n_requests + r.requests
           /\ verdict' = Append(verdict, <<valid_tickers[i + 1].market, r.verdict>>)
           /\ final_list' = final_list \o r.entry
           /\ pc' = IF r.verdict = "raised" THEN "raised" ELSE "stage2"
    /\ i' = i + 1
    /\ UNCHANGED <<tickers, chunks, valid_tickers, top_5>>
    /\ UNCHANGED <<exchange_vars, app_vars>>

\* the loop of line 106 ends; lines 151-162
Rank ==
    /\ pc = "stage2"
    /\ i >= Len(valid_tickers)
    /\ \E sorted \in {sort_desc(Normalized(final_list))} :
           /\ final_list' = sorted
           /\ top_5' = TopSlice(sorted)
    /\ pc' = "done"
    /\ UNCHANGED <<tickers, i, chunks, valid_tickers, is_macd_ok, macd_strength,
                   ma, verdict, n_requests>>
    /\ UNCHANGED <<exchange_vars, app_vars>>

AnalyzeMarket == GetTickers \/ SnapshotChunk \/ EndStage1 \/ Stage2Ticker \/ Rank

----------------------------------------------------------------------------
(* app.py: the cache, its two writer threads and the request handler.      *)
(* Each step below is one statement (for the handler: one subscript of     *)
(* the dict literal of lines 65-70); the threads may be switched between   *)
(* any two of them.  A timestamp is the clock value, None is 0.  The       *)
(* fields `cycle` record which analysis produced a value; the program      *)
(* does not hold them.                                                     *)

\* What analyze_market may return to update_cache: any list of entries.
Results == {<<>>, <<[market |-> 1, current_price |-> 10]>>}

LivePrices == {10, 11}

\* datetime.now().strftime(...)
Now == clock

Tick ==
    /\ clock < MaxClock
    /\ clock' = clock + 1
    /\ UNCHANGED <<cache, upd, live, req, responses, cycle>>
    /\ UNCHANGED <<exchange_vars, scan_vars>>

\* line 23: results = analyze_market(), or the exception it raises
\* (caught at line 28)
UpdAnalyze ==
    /\ upd.pc = "analyze"
    /\ cycle < MaxCycles
    /\ cycle' = cycle + 1
    /\ \/ \E results \in Results :
             upd' = [pc |-> "store_data", results |-> results]
       \/ upd' = [pc |-> "sleep", results |-> upd.results]
    /\ UNCHANGED <<cache, live, req, responses, clock>>
    /\ UNCHANGED <<exchange_vars, scan_vars>>

\* line 24
UpdStoreData ==
    /\ upd.pc = "store_data"
    /\ cache' = [cache EXCEPT !.data = [cycle |-> cycle, list |-> upd.results]]
    /\ upd' = [upd EXCEPT !.pc = "store_updated"]
    /\ UNCHANGED <<live, req, responses, clock, cycle>>
    /\ UNCHANGED <<exchange_vars, scan_vars>>

\* line 25
UpdStoreUpdated ==
    /\ upd.pc = "store_updated"
    /\ cache' = [cache EXCEPT !.last_updated = [cycle |-> cycle, at |-> Now]]
    /\ upd' = [upd EXCEPT !.pc = "store_sync"]
    /\ UNCHANGED <<live, req, responses, clock, cycle>>
    /\ UNCHANGED <<exchange_vars, scan_vars>>

\* line 26
UpdStoreSync ==
    /\ upd.pc = "store_sync"
    /\ cache' = [cache EXCEPT !.last_price_sync = cache.last_updated.at]
    /\ upd' = [upd EXCEPT !.pc = "sleep"]
    /\ UNCHANGED <<live, req, responses, clock, cycle>>
    /\ UNCHANGED <<exchange_vars, scan_vars>>

\* line 31, and the next pass of the loop of line 20
UpdWake ==
    /\ upd.pc = "sleep"
    /\ upd' = [upd EXCEPT !.pc = "analyze"]
    /\ UNCHANGED <<cache, live, req, responses, clock, cycle>>
    /\ UNCHANGED <<exchange_vars, scan_vars>>

\* line 36
LiveCheck ==
    /\ live.pc = "check"
    /\ live' = [live EXCEPT !.pc = IF cache.data.list # <<>> THEN "markets"
                                  ELSE "sleep"]
    /\ UNCHANGED <<cache, upd, req, responses, clock, cycle>>
    /\ UNCHANGED <<exchange_vars, scan_vars>>

\* line 38
LiveMarkets ==
    /\ live.pc = "markets"
    /\ live' = [live EXCEPT
                  !.pc = "request",
                  !.markets = [k \in 1..Len(cache.data.list) |->
                                  cache.data.list[k].market]]
    /\ UNCHANGED <<cache, upd, req, responses, clock, cycle>>
    /\ UNCHANGED <<exchange_vars, scan_vars>>

\* lines 39-45: the request and price_map, or an exception (line 54)
LiveRequest ==
    /\ live.pc = "request"
    /\ \/ \E price \in LivePrices :
             live' = [live EXCEPT
                        !.pc = "apply",
                        !.price_map = [k \in 1..Len(live.markets) |->
                                          <<live.markets[k], price>>]]
       \/ live' = [live EXCEPT !.pc = "sleep"]
    /\ UNCHANGED <<cache, upd, req, responses, clock, cycle>>
    /\ UNCHANGED <<exchange_vars, scan_vars>>

\* price_map[m], for m in price_map
PriceOf(price_map, m, old) ==
    IF \E k \in 1..Len(price_map) : price_map[k][1] = m
    THEN (CHOOSE pr \in Range(price_map) : pr[1] = m)[2]
    ELSE old

\* lines 47-50: the entries of the list cache["data"] now names are
\* updated in place
LiveApply ==
    /\ live.pc = "apply"
    /\ cache' = [cache EXCEPT
                   !.data.list = [k \in 1..Len(cache.data.list) |->
                       [cache.data.list[k] EXCEPT
                           !.current_price =
                               PriceOf(live.price_map, cache.data.list[k].market,
                                       cache.data.list[k].current_price)]]]
    /\ live' = [live EXCEPT !.pc = "store_sync"]
    /\ UNCHANGED <<upd, req, responses, clock, cycle>>
    /\ UNCHANGED <<exchange_vars, scan_vars>>

\* line 52
LiveStoreSync ==
    /\ live.pc = "store_sync"
    /\ cache' = [cache EXCEPT !.last_price_sync = Now]
    /\ live' = [live EXCEPT !.pc = "sleep"]
    /\ UNCHANGED <<upd, req, responses, clock, cycle>>
    /\ UNCHANGED <<exchange_vars, scan_vars>>

\* line 57, and the next pass of the loop of line 35
LiveWake ==
    /\ live.pc = "sleep"
    /\ live' = [live EXCEPT !.pc = "check"]
    /\ UNCHANGED <<cache, upd, req, responses, clock, cycle>>
    /\ UNCHANGED <<exchange_vars, scan_vars>>

\* a request for /api/recommend arrives; line 67
ReadUpdated ==
    /\ req.pc \in {"idle", "served"}
    /\ responses < MaxResponses
    /\ req' = [req EXCEPT !.pc = "read_sync", !.last_updated = cache.last_updated]
    /\ UNCHANGED <<cache, upd, live, responses, clock, cycle>>
    /\ UNCHANGED <<exchange_vars, scan_vars>>

\* line 68
ReadSync ==
    /\ req.pc = "read_sync"
    /\ req' = [req EXCEPT !.pc = "read_data",
                          !.last_price_sync = cache.last_price_sync]
    /\ UNCHANGED <<cache, upd, live, responses, clock, cycle>>
    /\ UNCHANGED <<exchange_vars, scan_vars>>

\* line 69, and the response
ReadData ==
    /\ req.pc = "read_data"
    /\ req' = [req EXCEPT !.pc = "served", !.recommendations = cache.data]
    /\ responses' = responses + 1
    /\ UNCHANGED <<cache, upd, live, clock, cycle>>
    /\ UNCHANGED <<exchange_vars, scan_vars>>

update_cache == UpdAnalyze \/ UpdStoreData \/ UpdStoreUpdated \/ UpdStoreSync \/ UpdWake

live_price_update ==
    LiveCheck \/ LiveMarkets \/ LiveRequest \/ LiveApply \/ LiveStoreSync \/ LiveWake

get_recommendations == ReadUpdated \/ ReadSync \/ ReadData

----------------------------------------------------------------------------
(* Initial states *)

InitScan ==
    /\ pc = "start"
    /\ tickers = <<>>
    /\ i = 0
    /\ chunks = <<>>
    /\ valid_tickers = <<>>
    /\ final_list = <<>>
    /\ top_5 = <<>>
    /\ is_macd_ok = FALSE
    /\ macd_strength = 0
    /\ ma = <<NaN, NaN>>
    /\ verdict = <<>>
    /\ n_requests = 0

\* cache of line 12 before either thread has run
InitCache ==
    [data |-> [cycle |-> 0, list |-> <<>>],
     last_updated |-> [cycle |-> 0, at |-> 0],
     last_price_sync |-> 0]

InitApp ==
    /\ cache = InitCache
    /\ upd = [pc |-> "analyze", results |-> <<>>]
    /\ live = [pc |-> "check", markets |-> <<>>, price_map |-> <<>>]
    /\ req = [pc |-> "idle", last_updated |-> InitCache.last_updated,
              last_price_sync |-> 0, recommendations |-> InitCache.data]
    /\ responses = 0
    /\ clock = 1
    /\ cycle = 0

\* Price levels of the synthetic feeds; every feed is flat at 10 except for
\* its newest candles.
PriceLevels == {8, 10, 12}

Tails == UNION {[1..n -> PriceLevels] : n \in {MaxTail}}

Feed(len, tail, bad, fault) ==
    [len |-> len, tail |-> tail, base |-> 10, bad |-> bad, fault |-> fault]

\* A listing of the markets 1..n, all KRW, followed by `others` markets
\* quoted in another currency.
Listing(n, others, fault, keyed) ==
    [fault |-> fault,
     items |-> [k \in 1..(n + others) |->
                   [market |-> k, krw |-> (k <= n), keyed |-> keyed]]]

Quote(m, rate, acc, keys) ==
    [market |-> m, signed_change_rate |-> rate, acc_trade_price_24h |-> acc,
     keys |-> keys]

NumChunks(n) == (n + chunk_size - 1) \div chunk_size

\* Feeds that pass and fail the two checks of stage 2, full length.
RisingDays == Feed(DayCount, <<12, 10, 10>>, 0, "none")

StrongDays == Feed(DayCount, <<12, 12, 12>>, 0, "none")

FallingDays == Feed(DayCount, <<8, 10, 10>>, 0, "none")

RisingHours == Feed(HourCount, <<12, 10, 10>>, 0, "none")

SteepHours == Feed(HourCount, <<14, 10, 10>>, 0, "none")

FlatHours == Feed(HourCount, <<10, 10, 10>>, 0, "none")

AllKrw(n) == Listing(n, 0, "none", TRUE)

NoSnapFault(n) == [c \in 1..NumChunks(n) |-> "none"]

\* The ranking specification: up to MaxTickers markets, every request
\* succeeds with a full-length series.  A market is of one of four kinds:
\* "weak" passes both stages with a large traded value and weak
\* indicators, "strong" passes both with a small traded value and strong
\* indicators, "off_band" fails stage 1, "no_trend" fails stage 2.
Kinds == {"weak", "strong", "off_band", "no_trend"}

KindQuote(m, kind) ==
    Quote(m,
          IF kind = "off_band" THEN RateBand + 1 ELSE 0,
          CASE kind = "weak" -> 2 [] kind = "strong" -> 1 [] OTHER -> 3,
          "all")

KindDays(kind) == IF kind = "strong" THEN StrongDays ELSE RisingDays

KindHours(kind) ==
    CASE kind = "strong" -> SteepHours
      [] kind = "no_trend" -> FlatHours
      [] OTHER -> RisingHours

Init ==
    /\ InitScan
    /\ InitApp
    /\ \E n \in 0..MaxTickers : \E kind \in [1..n -> Kinds] :
        /\ listing = AllKrw(n)
        /\ snap_fault = NoSnapFault(n)
        /\ quote = [m \in 1..n |-> KindQuote(m, kind[m])]
        /\ day_feed = [m \in 1..n |-> KindDays(kind[m])]
        /\ hour_feed = [m \in 1..n |-> KindHours(kind[m])]

\* The band specification: the change rates at and around the band's ends.
BandRates == {0 - RateBand - 1, 0 - RateBand, 0, RateBand, RateBand + 1}

InitBand ==
    /\ InitScan
    /\ InitApp
    /\ \E n \in 1..MaxSmall :
       \E rate \in [1..n -> BandRates] :
       \E acc \in [1..n -> {1, 2}] :
       \E hours \in [1..n -> {RisingHours, FlatHours}] :
        /\ listing = AllKrw(n)
        /\ snap_fault = NoSnapFault(n)
        /\ quote = [m \in 1..n |-> Quote(m, rate[m], acc[m], "all")]
        /\ day_feed = [m \in 1..n |-> RisingDays]
        /\ hour_feed = hours

\* The MACD specification: one market, in the band, whose daily series
\* varies in length and in its newest prices.
InitMacd ==
    /\ InitScan
    /\ InitApp
    /\ \E len \in {29, 30, 31, 50, 51} :
       \E tail \in Tails :
       \E hours \in {RisingHours, FlatHours} :
        /\ listing = AllKrw(1)
        /\ snap_fault = NoSnapFault(1)
        /\ quote = [m \in 1..1 |-> Quote(m, 0, 1, "all")]
        /\ day_feed = [m \in 1..1 |-> Feed(len, tail, 0, "none")]
        /\ hour_feed = [m \in 1..1 |-> hours]

\* The trend specification: one market, in the band, passing the MACD
\* check, whose hourly series varies in length and in its newest prices.
InitTrend ==
    /\ InitScan
    /\ InitApp
    /\ \E len \in {9, 10, 11, 12, 20, 21} :
       \E tail \in Tails :
        /\ listing = AllKrw(1)
        /\ snap_fault = NoSnapFault(1)
        /\ quote = [m \in 1..1 |-> Quote(m, 0, 1, "all")]
        /\ day_feed = [m \in 1..1 |-> RisingDays]
        /\ hour_feed = [m \in 1..1 |-> Feed(len, tail, 0, "none")]

\* The history specification: series of every length around the two
\* minimum lengths and the two requested counts, or missing.
DayFeeds ==
    {Feed(len, <<12, 10, 10>>, 0, "none") :
        len \in {0, 29, 30, 49, 50}}
    \cup {Feed(DayCount, <<12, 10, 10>>, 0, "neterr")}

HourFeeds ==
    {Feed(len, <<12, 10, 10>>, 0, "none") :
        len \in {0, 11, 12, 19, 20}}
    \cup {Feed(HourCount, <<12, 10, 10>>, 0, "neterr")}

InitHistory ==
    /\ InitScan
    /\ InitApp
    /\ \E n \in 1..MaxSmall :
       \E days \in [1..n -> DayFeeds] :
       \E hours \in [1..n -> HourFeeds] :
        /\ listing = AllKrw(n)
        /\ snap_fault = NoSnapFault(n)
        /\ quote = [m \in 1..n |-> Quote(m, 0, m, "all")]
        /\ day_feed = days
        /\ hour_feed = hours

\* The fault specification: a candle request may fail (status, transport,
\* body), and a payload may hold a trade_price that is no number.
FaultyDays ==
    {RisingDays, FallingDays,
     Feed(DayCount, <<12, 10, 10>>, 0, "neterr"),
     Feed(DayCount, <<12, 10, 10>>, 0, "status"),
     Feed(DayCount, <<12, 10, 10>>, 2, "none")}

FaultyHours ==
    {RisingHours,
     Feed(HourCount, <<12, 10, 10>>, 0, "neterr"),
     Feed(HourCount, <<12, 10, 10>>, HourCount, "none")}

InitFault ==
    /\ InitScan
    /\ InitApp
    /\ \E n \in 1..(MaxSmall + 1) :
       \E days \in [1..n -> FaultyDays] :
       \E hours \in [1..n -> FaultyHours] :
        /\ listing = AllKrw(n)
        /\ snap_fault = NoSnapFault(n)
        /\ quote = [m \in 1..n |-> Quote(m, 0, m, "all")]
        /\ day_feed = days
        /\ hour_feed = hours

\* The listing specification: the listing request may fail in each way,
\* and the listing may hold markets quoted in another currency.
InitListing ==
    /\ InitScan
    /\ InitApp
    /\ \E n \in 0..MaxSmall :
       \E others \in 0..1 :
       \E fault \in {"none", "neterr", "status", "notjson"} :
       \E keyed \in BOOLEAN :
       \E kind \in [1..(n + others) -> {"weak", "off_band", "no_trend"}] :
        /\ listing = Listing(n, others, fault, keyed)
        /\ snap_fault = NoSnapFault(n)
        /\ quote = [m \in 1..(n + others) |-> KindQuote(m, kind[m])]
        /\ day_feed = [m \in 1..(n + others) |-> KindDays(kind[m])]
        /\ hour_feed = [m \in 1..(n + others) |-> KindHours(kind[m])]

\* The batch specification: universes around one and two chunks; a
\* snapshot request may fail as a whole, and one item of the answers may
\* lack a key.  One market in four is in the band.
BatchSizes == {chunk_size - 1, chunk_size, chunk_size + 1, 2 * chunk_size + 1}

InitBatch ==
    /\ InitScan
    /\ InitApp
    /\ \E n \in BatchSizes :
       \E faults \in [1..NumChunks(n) -> {"none", "neterr", "notjson"}] :
       \E broken \in {0, 1, 2, 5, chunk_size, chunk_size + 1} :
       \E keys \in {"no_rate", "no_acc"} :
        /\ broken <= n
        /\ listing = AllKrw(n)
        /\ snap_fault = faults
        /\ quote = [m \in 1..n |->
                      Quote(m,
                            IF m % 4 = 0 THEN 0 ELSE RateBand + 1 + (m % 4),
                            1 + (m % 3),
                            IF m = broken THEN keys ELSE "all")]
        /\ day_feed = [m \in 1..n |-> IF m % 8 = 0 THEN RisingDays ELSE FallingDays]
        /\ hour_feed = [m \in 1..n |-> RisingHours]

Next == AnalyzeMarket

Spec == Init /\ [][Next]_vars

SpecBand == InitBand /\ [][Next]_vars

SpecMacd == InitMacd /\ [][Next]_vars

SpecTrend == InitTrend /\ [][Next]_vars

SpecHistory == InitHistory /\ [][Next]_vars

SpecFault == InitFault /\ [][Next]_vars

SpecListing == InitListing /\ [][Next]_vars

SpecBatch == InitBatch /\ [][Next]_vars

\* app.py on its own: the scan is the call of line 23.
InitServer ==
    /\ InitScan
    /\ InitApp
    /\ listing = AllKrw(0)
    /\ snap_fault = NoSnapFault(0)
    /\ quote = <<>>
    /\ day_feed = <<>>
    /\ hour_feed = <<>>

NextServer == Tick \/ update_cache \/ live_price_update \/ get_recommendations

SpecCache == InitServer /\ [][NextServer]_vars

----------------------------------------------------------------------------
(* The terms the properties are stated in, read off the exchange's data    *)
(* and not off the scan's variables.                                       *)

Universe == DOMAIN quote

MarketsOf(list) == {list[k].market : k \in 1..Len(list)}

\* The payload of a candle request as the exchange sends it (newest
\* first, `count` candles at most), or nothing when the request fails.
Payload(feed, count) ==
    IF feed.fault # "none" THEN <<>>
    ELSE [k \in 1..Min(feed.len, count) |-> History(feed)[k]]

\* The trade price t-th from the oldest of a payload, as a float.
PriceAt(payload, t) == payload[Len(payload) + 1 - t].trade_price * Scale

\* ema[1] = price[1], ema[t] = price[t]*k + ema[t-1]*(1-k), k = 2/(span+1)
RECURSIVE Ema(_, _, _)
Ema(payload, span, t) ==
    IF t = 1 THEN PriceAt(payload, 1)
    ELSE (2 * PriceAt(payload, t) + (span - 1) * Ema(payload, span, t - 1))
             \div (span + 1)

Macd(payload, t) == Ema(payload, 12, t) - Ema(payload, 26, t)

RECURSIVE Signal(_, _)
Signal(payload, t) ==
    IF t = 1 THEN Macd(payload, 1)
    ELSE (2 * Macd(payload, t) + 8 * Signal(payload, t - 1)) \div 10

\* <<previous MACD, previous signal, current MACD, current signal>>
LastTwo(payload) ==
    <<Macd(payload, Len(payload) - 1), Signal(payload, Len(payload) - 1),
      Macd(payload, Len(payload)), Signal(payload, Len(payload))>>

\* golden cross, or sustained strength
MacdCondition(q) ==
    \/ q[1] <= q[2] /\ q[3] > q[4]
    \/ q[3] > q[4] /\ q[3] > q[1]

\* The sum of the ten trade prices ending t-th from the newest.
RECURSIVE SumOfTen(_, _, _)
SumOfTen(payload, from, k) ==
    IF k = 0 THEN 0
    ELSE payload[from].trade_price + SumOfTen(payload, from + 1, k - 1)

CurrMa10(payload) == (Scale * SumOfTen(payload, 1, 10)) \div 10

PrevMa10(payload) == (Scale * SumOfTen(payload, 2, 10)) \div 10

\* The feeds of the synthetic universes, and those among them that
\* satisfy the MACD condition and the rising MA10 on a full-length series.
ScanDays == {KindDays(kind) : kind \in Kinds}

ScanHours == {KindHours(kind) : kind \in Kinds}

QualifyingDays ==
    {feed \in ScanDays :
        /\ Len(Payload(feed, 50)) = 50
        /\ MacdCondition(LastTwo(Payload(feed, 50)))}

QualifyingHours ==
    {feed \in ScanHours :
        /\ Len(Payload(feed, 20)) = 20
        /\ CurrMa10(Payload(feed, 20)) > PrevMa10(Payload(feed, 20))}

\* The markets the listing names as KRW markets.
Listed == {listing.items[k].market : k \in {j \in 1..Len(listing.items) :
                                               listing.items[j].krw}}

\* A universe in which every request succeeds with a full-length series.
Synthetic ==
    /\ listing.fault = "none"
    /\ \A k \in 1..Len(listing.items) : listing.items[k].keyed
    /\ \A c \in DOMAIN snap_fault : snap_fault[c] = "none"
    /\ \A m \in Universe :
        /\ quote[m].keys = "all"
        /\ day_feed[m] \in ScanDays
        /\ hour_feed[m] \in ScanHours

\* m satisfies both filter stages.
Qualifies(m) ==
    /\ quote[m].signed_change_rate \in (0 - 20)..20
    /\ day_feed[m] \in QualifyingDays
    /\ hour_feed[m] \in QualifyingHours

Qualifying == {m \in Listed : Qualifies(m)}

Traded(m) == quote[m].acc_trade_price_24h

\* The n largest traded values among the markets of S, largest first.
RECURSIVE LargestFirst(_, _)
LargestFirst(S, n) ==
    IF S = {} \/ n = 0 THEN <<>>
    ELSE LET top == CHOOSE x \in S : \A y \in S : Traded(x) >= Traded(y)
         IN  <<Traded(top)>> \o LargestFirst(S \ {top}, n - 1)

\* The market the loop of stage 2 evaluated last, and what it did with it.
LastMarket == verdict[Len(verdict)][1]

LastVerdict == verdict[Len(verdict)][2]

----------------------------------------------------------------------------
(* Properties *)

\* C4: when check_macd_golden_cross evaluates a daily series (at least 30
\* candles), it passes the ticker exactly when, on the last two positions
\* of the oldest-first series, previous MACD <= previous signal and current
\* MACD > current signal, or current MACD > current signal and current MACD
\* > previous MACD; on a pass macd_strength is current MACD - current
\* signal; and with current MACD <= current signal the ticker is rejected.
C4_MacdRule ==
    verdict # <<>> =>
        With(Payload(day_feed[LastMarket], 50), LAMBDA payload :
            Len(payload) >= 30 =>
                With(LastTwo(payload), LAMBDA q :
                    /\ is_macd_ok = MacdCondition(q)
                    /\ is_macd_ok => macd_strength = q[3] - q[4]
                    /\ q[3] <= q[4] => ~is_macd_ok /\ LastVerdict = "macd"))

\* A ticker passed on a golden cross, and its strength is reported.
C4_Witness ==
    /\ verdict # <<>>
    /\ is_macd_ok
    /\ macd_strength > 0
    /\ With(LastTwo(Payload(day_feed[LastMarket], 50)), LAMBDA q : q[1] <= q[2])

\* C5: the hourly trend check passes only when the current MA10 is strictly
\* greater than the previous MA10, each the arithmetic mean of exactly the
\* last 10 hourly prices of the oldest-first series; a ticker whose current
\* or previous MA10 is undefined (fewer than 10 samples in the window) is
\* rejected, never read as zero.
C5_TrendRule ==
    verdict # <<>> =>
        With(Payload(hour_feed[LastMarket], 20), LAMBDA payload :
            /\ LastVerdict = "pass" =>
                /\ Len(payload) >= 11
                /\ CurrMa10(payload) > PrevMa10(payload)
                /\ ma = <<Num(CurrMa10(payload)), Num(PrevMa10(payload))>>
                /\ final_list # <<>>
                /\ final_list[Len(final_list)].ma10 = CurrMa10(payload)
                /\ final_list[Len(final_list)].slope
                       = CurrMa10(payload) - PrevMa10(payload)
            /\ LastVerdict # "pass" => LastMarket \notin MarketsOf(final_list)
            /\ Len(payload) < 11 => LastVerdict # "pass")

\* Equal moving averages: the ticker is rejected.
C5_Witness ==
    /\ verdict # <<>>
    /\ LastVerdict = "flat"
    /\ ~isna(ma[1])
    /\ ma[1] = ma[2]
    /\ pc = "done"
    /\ top_5 = <<>>

\* C1: when every fetch succeeds with full-length series and exactly K of
\* the N tickers satisfy both filter stages, analyze_market returns exactly
\* min(K, 5) candidates, each of them one of the K, none of them twice.
C1_FanOut ==
    Synthetic =>
        /\ pc # "raised"
        /\ pc = "done" =>
            With(Qualifying, LAMBDA Q :
                /\ Len(top_5) = Min(Cardinality(Q), 5)
                /\ MarketsOf(top_5) \subseteq Q
                /\ Cardinality(MarketsOf(top_5)) = Len(top_5))

\* More than five tickers qualify, and five are returned.
C1_Witness ==
    /\ Synthetic
    /\ pc = "done"
    /\ Cardinality(Qualifying) > 5
    /\ Len(top_5) = 5

\* C2: the returned list is in descending order of acc_trade_price_24h, no
\* qualifying ticker left out has a larger traded value than one in the
\* list, and the traded values in the list are the largest ones among the
\* qualifying tickers, largest first, whatever the indicators' strength
\* and the order of evaluation.
C2_Ranking ==
    (Synthetic /\ pc = "done") =>
        With(Qualifying, LAMBDA Q :
            /\ \A k \in 1..Len(top_5) :
                top_5[k].acc_trade_price_24h = Traded(top_5[k].market)
            /\ \A k \in 1..(Len(top_5) - 1) :
                top_5[k].acc_trade_price_24h >= top_5[k + 1].acc_trade_price_24h
            /\ \A m \in Q \ MarketsOf(top_5) : \A k \in 1..Len(top_5) :
                Traded(m) <= top_5[k].acc_trade_price_24h
            /\ [k \in 1..Len(top_5) |-> top_5[k].acc_trade_price_24h]
                   = LargestFirst(Q, 5))

\* A ticker with the weaker indicators, evaluated later, is ranked before
\* one with the stronger indicators, and a qualifying ticker is left out.
C2_Witness ==
    /\ Synthetic
    /\ pc = "done"
    /\ Len(top_5) = 5
    /\ Qualifying \ MarketsOf(top_5) # {}
    /\ \E j \in 1..5 : \E k \in 1..5 :
        /\ j < k
        /\ top_5[j].macd_strength < top_5[k].macd_strength
        /\ top_5[j].slope < top_5[k].slope
        /\ top_5[j].market > top_5[k].market

\* C3: stage 1 keeps a ticker exactly when its signed_change_rate lies in
\* [-0.02, +0.02], ends included (0.020 and -0.020 kept, 0.021 and -0.021
\* dropped), and a dropped ticker is never returned.
C3_Band ==
    /\ pc \in {"stage2", "done", "raised"} =>
        \A m \in Listed :
            (m \in MarketsOf(valid_tickers))
                <=> (quote[m].signed_change_rate \in (0 - 20)..20)
    /\ \A m \in Listed :
        quote[m].signed_change_rate \notin (0 - 20)..20
            => m \notin MarketsOf(top_5) \cup MarketsOf(final_list)

\* A ticker at +0.020 is returned while one at -0.021 was dropped.
C3_Witness ==
    /\ pc = "done"
    /\ \E a \in Listed : \E b \in Listed :
        /\ quote[a].signed_change_rate = 20
        /\ a \in MarketsOf(top_5)
        /\ quote[b].signed_change_rate = 0 - 21
        /\ b \notin MarketsOf(valid_tickers)

\* C6, as claimed: a ticker with fewer than 50 daily candles or fewer than
\* 20 hourly candles (or none) is never returned, and the scan goes on.
C6_AsClaimed ==
    /\ pc # "raised"
    /\ pc = "done" =>
        \A m \in Listed :
            (\/ Len(Payload(day_feed[m], 50)) < 50
             \/ Len(Payload(hour_feed[m], 20)) < 20)
                => m \notin MarketsOf(top_5)

\* C6, amended: a ticker with fewer than 30 daily candles or fewer than 12
\* hourly candles (or none) is never returned, and the scan goes on to
\* evaluate every other ticker.
C6_ShortHistory ==
    /\ pc # "raised"
    /\ \A m \in Listed :
        (\/ Len(Payload(day_feed[m], 50)) < 30
         \/ Len(Payload(hour_feed[m], 20)) < 12)
            => m \notin MarketsOf(top_5) \cup MarketsOf(final_list)
    /\ pc = "done" => Len(verdict) = Len(valid_tickers)

\* A ticker with 29 daily candles is rejected and the next one, with 30
\* daily and 12 hourly candles, is returned.
C6_Witness ==
    /\ pc = "done"
    /\ \E a \in Listed : \E b \in Listed :
        /\ a < b
        /\ Len(Payload(day_feed[a], 50)) = 29
        /\ a \notin MarketsOf(top_5)
        /\ Len(Payload(day_feed[b], 50)) = 30
        /\ Len(Payload(hour_feed[b], 20)) = 12
        /\ b \in MarketsOf(top_5)

\* The listing request fails: transport, HTTP status, or a payload that is
\* not a list of markets.
ListingFails ==
    \/ listing.fault # "none"
    \/ \E k \in 1..Len(listing.items) : ~listing.items[k].keyed

\* C8: when the listing fails, analyze_market returns the empty list
\* without raising and without any snapshot or candle request; the empty
\* list is also what it returns when no ticker qualifies.
C8_ListingFailure ==
    /\ pc # "raised"
    /\ ListingFails =>
        /\ pc # "start" => tickers = <<>>
        /\ n_requests = 0
        /\ chunks = <<>>
        /\ pc = "done" => top_5 = <<>>
    /\ (pc = "done" /\ Qualifying = {}) => top_5 = <<>>

\* The listing fails although it names a ticker that would qualify, and
\* the scan ends with the empty list.
C8_Witness ==
    /\ pc = "done"
    /\ ListingFails
    /\ Qualifying # {}
    /\ top_5 = <<>>
    /\ n_requests = 0

\* C7: a fault confined to one ticker's stage-2 evaluation (a failed candle
\* request, a trade_price that is no number) makes that ticker absent:
\* analyze_market still runs to completion, and the other tickers are
\* returned as if the faulty one had simply not qualified.
C7_FaultIsolated ==
    /\ pc # "raised"
    /\ pc = "done" =>
        /\ MarketsOf(top_5) \subseteq Qualifying
        /\ [k \in 1..Len(top_5) |-> top_5[k].acc_trade_price_24h]
               = LargestFirst(Qualifying, 5)

\* The snapshot request of chunk c fails: transport, a body that is not
\* JSON, or an item of the answer without one of its keys.
BatchFails(c) ==
    \/ snap_fault[c] # "none"
    \/ \E m \in Range(chunks[c]) : quote[m].keys # "all"

\* C9: stage 1 requests consecutive chunks of at most 100 tickers covering
\* every ticker once; no ticker of a chunk whose request fails survives
\* stage 1, and every other chunk is filtered as if nothing had failed.
C9_BatchIsolation ==
    pc \in {"stage2", "done", "raised"} =>
        /\ Len(chunks) = (Len(tickers) + 99) \div 100
        /\ \A c \in 1..Len(chunks) :
            /\ chunks[c] = SubSeq(tickers, 100 * (c - 1) + 1,
                                  Min(100 * c, Len(tickers)))
            /\ BatchFails(c) =>
                MarketsOf(valid_tickers) \cap Range(chunks[c]) = {}
            /\ ~BatchFails(c) =>
                MarketsOf(valid_tickers) \cap Range(chunks[c])
                    = {m \in Range(chunks[c]) :
                          quote[m].signed_change_rate \in (0 - 20)..20}

\* C10: every response is a consistent snapshot of the cache: its list and
\* its last_updated come from the same analysis (a non-empty list never
\* comes with last_updated null), and its last_price_sync is not earlier
\* than its last_updated.
C10_ConsistentSnapshot ==
    req.pc = "served" =>
        /\ req.recommendations.cycle = req.last_updated.cycle
        /\ req.recommendations.list # <<>> => req.last_updated.at # 0
        /\ req.last_price_sync >= req.last_updated.at

====
